---- MODULE Spec2Model ----
(***************************************************************************)
(* Order reconciliation service (src/app.py): field coercion, standardize, *)
(* compare_orders, build_summary and the Flask handlers around             *)
(* REPORT_CACHE.                                                           *)
(*                                                                         *)
(* Text.  A string is a sequence of symbols.  A symbol is one character    *)
(* ("1", " ", ","), except that the words the program compares as a whole  *)
(* are one symbol each:                                                    *)
(*   "TRADE_SUCCESS" = 交易成功   "SHIPPED"  = 已发货   "RECEIVED" = 已收货 *)
(*   "CLOSED"        = 交易关闭 (a status outside ALLOWED_STATUS)           *)
(*   "yen"           = ¥                                                   *)
(*   "MATCHED" = 匹配   "MISSING" = 客服漏记   "ABNORMAL" = 异常订单        *)
(* Column names, mapping keys and file kinds are plain TLA+ strings.       *)
(*                                                                         *)
(* Amounts.  A float is modelled as an integer number of thousandths, so   *)
(* amounts are finer than one cent; round(x, 2) rounds to a multiple of    *)
(* ten thousandths.                                                        *)
(***************************************************************************)
EXTENDS Integers, Sequences, FiniteSets, TLC

VARIABLES
    REPORT_CACHE,   \* app.py:16, report id -> [result_df, summary, created_at]
    clock,          \* datetime.now(), a logical clock
    threads,        \* the request each worker thread is handling, and where it is
    response,       \* the response most recently sent
    std_call,       \* arguments of the current standardize call
    std_ret,        \* what that call returned or raised
    official,       \* compare_orders argument: the official record set
    service,        \* compare_orders argument: the service record set
    result_df,      \* compare_orders return value
    summary,        \* build_summary return value
    pc              \* position of the compare_orders / build_summary pipeline

vars == <<REPORT_CACHE, clock, threads, response, std_call, std_ret,
          official, service, result_df, summary, pc>>

web_vars == <<REPORT_CACHE, clock, threads, response>>
std_vars == <<std_call, std_ret>>
cmp_vars == <<official, service, result_df, summary, pc>>

\* a variable that holds no value yet
None == [none |-> TRUE]

-----------------------------------------------------------------------------
(* Bounds of the model *)

MaxRows == 4        \* rows of a raw table given to standardize
MaxTotalRows == 24  \* rows of a cached report read through report_page
MaxReports == 2     \* reports stored in REPORT_CACHE
MaxThreads == 2     \* requests handled at the same time
BigTotalRows == 1001 \* rows of the one large cached report

-----------------------------------------------------------------------------
(* Text helpers *)

Whitespace == {" ", "\t"}

DigitSeq == <<"0", "1", "2", "3", "4", "5", "6", "7", "8", "9">>

DigitChars == {DigitSeq[i] : i \in 1..Len(DigitSeq)}

\* int(c) for a digit character; also its rank in code-point order
DigitVal(c) == (CHOOSE i \in 1..Len(DigitSeq) : DigitSeq[i] = c) - 1

RemoveChars(s, C) == SelectSeq(s, LAMBDA c : c \notin C)

RECURSIVE LStrip(_)
LStrip(s) ==
    IF s # <<>> /\ Head(s) \in Whitespace THEN LStrip(Tail(s)) ELSE s

RECURSIVE RStrip(_)
RStrip(s) ==
    IF s # <<>> /\ s[Len(s)] \in Whitespace
    THEN RStrip(SubSeq(s, 1, Len(s) - 1))
    ELSE s

\* str.strip()
Strip(s) == RStrip(LStrip(s))

\* Python's < on two strings: lexicographic by code point, a proper prefix first.
\* Only digit strings are compared (order numbers).
RECURSIVE StrLess(_, _)
StrLess(a, b) ==
    IF b = <<>> THEN FALSE
    ELSE IF a = <<>> THEN TRUE
    ELSE IF Head(a) # Head(b) THEN DigitVal(Head(a)) < DigitVal(Head(b))
    ELSE StrLess(Tail(a), Tail(b))

-----------------------------------------------------------------------------
(* Amounts *)

Unit == 10 * 10 * 10       \* thousandths in 1.0
Cent == Unit \div 100      \* thousandths in 0.01

\* round(x, 2): to the nearest cent, an exact tie to the even cent
Round2(x) ==
    LET q == x \div Cent
        r == x % Cent
    IN  IF 2 * r < Cent THEN q * Cent
        ELSE IF 2 * r > Cent THEN (q + 1) * Cent
        ELSE IF q % 2 = 0 THEN q * Cent ELSE (q + 1) * Cent

RECURSIVE DigitsValue(_)
DigitsValue(ds) ==
    IF ds = <<>> THEN 0
    ELSE DigitsValue(SubSeq(ds, 1, Len(ds) - 1)) * 10 + DigitVal(ds[Len(ds)])

\* value of the integer part ip and the fractional part fp, in thousandths
DecimalValue(neg, ip, fp) ==
    IF Len(ip) + Len(fp) = 0 \/ Len(fp) > 3
    THEN [ok |-> FALSE, value |-> 0]
    ELSE [ok    |-> TRUE,
          value |-> (IF neg THEN 0 - 1 ELSE 1)
                    * (DigitsValue(ip) * Unit
                       + DigitsValue(fp) * (CASE Len(fp) = 0 -> 0
                                              [] Len(fp) = 1 -> 100
                                              [] Len(fp) = 2 -> 10
                                              [] Len(fp) = 3 -> 1))]

\* body split at its only "." (position dot; Len(body) + 1 when it has none)
SplitAtDot(neg, body, dot) ==
    DecimalValue(neg, SubSeq(body, 1, dot - 1), SubSeq(body, dot + 1, Len(body)))

ParseUnsigned(neg, body, dots) ==
    IF Cardinality(dots) > 1 \/ \E i \in 1..Len(body) : body[i] \notin DigitChars \cup {"."}
    THEN [ok |-> FALSE, value |-> 0]
    ELSE SplitAtDot(neg, body, IF dots = {} THEN Len(body) + 1 ELSE CHOOSE i \in dots : TRUE)

ParseSigned(neg, body) ==
    ParseUnsigned(neg, body, {i \in 1..Len(body) : body[i] = "."})

\* float(text) for the symbols of the model: an optional "-", digits, at most
\* one "." and at most three fractional digits.  [ok |-> FALSE] is ValueError.
ParseFloat(text) ==
    IF text # <<>> /\ Head(text) = "-"
    THEN ParseSigned(TRUE, Tail(text))
    ELSE ParseSigned(FALSE, text)

-----------------------------------------------------------------------------
(* Field coercion *)

\* normalize_order_no from line 43 on, text being the stripped cell
DigitsOfText(text) ==
    IF text = <<>> THEN <<>>
    ELSE SelectSeq(RemoveChars(text, Whitespace), LAMBDA c : c \in DigitChars)

normalize_order_no(value) == DigitsOfText(Strip(value))

\* the try/except around float(text), lines 54-57
FloatOrDefault(parsed, default) == IF parsed.ok THEN parsed.value ELSE default

\* to_number from line 51 on, text being the stripped cell
NumberOfText(text, default) ==
    IF text = <<>> THEN default
    ELSE FloatOrDefault(ParseFloat(RemoveChars(text, {"yen", ","} \cup Whitespace)), default)

to_number(value, default) == NumberOfText(Strip(value), default)

-----------------------------------------------------------------------------
(* DataFrames.  A raw table is [columns, rows]: each row maps every column   *)
(* name to its cell text.  A canonical table (work, official, service) is a  *)
(* sequence of records order_no, product_name, sales_amount, cost_amount,    *)
(* status, in row order.                                                     *)

\* the rows of s at the positions in I, in order
RECURSIVE PickIdx(_, _, _)
PickIdx(s, I, i) ==
    IF i > Len(s) THEN <<>>
    ELSE (IF i \in I THEN <<s[i]>> ELSE <<>>) \o PickIdx(s, I, i + 1)

ALLOWED_STATUS == {<<"TRADE_SUCCESS">>, <<"SHIPPED">>, <<"RECEIVED">>}

MapKeys == {"order_no", "status", "product_name", "sales_amount", "cost_amount"}

RequiredKeys == {"order_no", "product_name", "sales_amount"}

\* work[work["order_no"] != ""]
DropEmptyOrderNo(work) ==
    PickIdx(work, {i \in 1..Len(work) : work[i].order_no # <<>>}, 1)

\* A slip: duplicated(keep="first"), which marks only the later occurrences.
DuplicatedKeepFirst(work) ==
    {i \in 1..Len(work) :
        \E j \in 1..(i - 1) : work[j].order_no = work[i].order_no}

\* work.duplicated(subset=["order_no"], keep=False): positions of the rows
\* marked True
DuplicatedKeepFalse(work) ==
    {i \in 1..Len(work) :
        \E j \in 1..Len(work) : j # i /\ work[j].order_no = work[i].order_no}

\* A slip: drop_duplicates(keep="last").
DropDuplicatesKeepLast(work) ==
    PickIdx(work,
            {i \in 1..Len(work) :
                \A j \in (i + 1)..Len(work) : work[j].order_no # work[i].order_no},
            1)

\* work.drop_duplicates(subset=["order_no"], keep="first")
DropDuplicatesKeepFirst(work) ==
    PickIdx(work,
            {i \in 1..Len(work) :
                \A j \in 1..(i - 1) : work[j].order_no # work[i].order_no},
            1)

\* work[work["status"].isin(ALLOWED_STATUS)]
KeepAllowedStatus(work) ==
    PickIdx(work, {i \in 1..Len(work) : work[i].status \in ALLOWED_STATUS}, 1)

\* the five projected columns of one raw row
ProjectRow(row, mapping, default_cost) ==
    [order_no     |-> normalize_order_no(row[mapping["order_no"]]),
     product_name |-> Strip(row[mapping["product_name"]]),
     sales_amount |-> to_number(row[mapping["sales_amount"]], 0),
     cost_amount  |-> IF mapping["cost_amount"] # ""
                      THEN to_number(row[mapping["cost_amount"]], default_cost)
                      ELSE default_cost,
     status       |-> IF mapping["status"] # ""
                      THEN Strip(row[mapping["status"]])
                      ELSE <<>>]

\* lines 106-115: projected is the table of line 92, nonempty that of line 94,
\* deduped that of line 98 and work the table returned
StdResult(source_name, projected, nonempty, deduped, work, filtering) ==
    [raised |-> FALSE,
     work   |-> work,
     stats  |-> [source               |-> source_name,
                 total_rows           |-> Len(projected),
                 empty_order_removed  |-> Len(projected) - Len(nonempty),
                 duplicate_rows       |-> Cardinality(DuplicatedKeepFalse(nonempty)),
                 status_filtered_rows |-> IF filtering THEN Len(deduped) - Len(work)
                                          ELSE 0,
                 kept_rows            |-> Len(work)]]

\* lines 100-104
StdStatusFilter(source_name, projected, nonempty, deduped, filtering) ==
    StdResult(source_name, projected, nonempty, deduped,
              IF filtering THEN KeepAllowedStatus(deduped) ELSE deduped, filtering)

\* lines 97-98
StdDropDuplicates(source_name, projected, nonempty, filtering) ==
    StdStatusFilter(source_name, projected, nonempty,
                    DropDuplicatesKeepFirst(nonempty), filtering)

\* lines 92-95
StdDropEmpty(source_name, projected, filtering) ==
    StdDropDuplicates(source_name, projected, DropEmptyOrderNo(projected), filtering)

\* the part of standardize after validation, lines 76-115
StandardizeRows(df, mapping, source_name, default_cost, filter_status) ==
    StdDropEmpty(source_name,
                 [i \in 1..Len(df.rows) |-> ProjectRow(df.rows[i], mapping, default_cost)],
                 filter_status /\ mapping["status"] # "")

\* standardize: ValueError (raised) or (work, stats)
standardize(df, mapping, source_name, default_cost, filter_status) ==
    IF \E k \in RequiredKeys : mapping[k] = ""
    THEN [raised |-> TRUE, error |-> "mapping_missing_field"]
    ELSE IF \E k \in MapKeys : mapping[k] # "" /\ mapping[k] \notin df.columns
    THEN [raised |-> TRUE, error |-> "mapping_no_such_column"]
    ELSE StandardizeRows(df, mapping, source_name, default_cost, filter_status)

-----------------------------------------------------------------------------
(* compare_orders.  A result row has the columns                             *)
(*   seq_no = 类序号, order_no = 订单号, product_name = 商品名称,              *)
(*   sales_amount = 销售额, cost_amount = 成本, profit = 利润,                 *)
(*   status = 状态, compare_result = 比对结果.                                 *)

\* table.set_index("order_no", drop=False).loc[order_no], the index being unique
Loc(table, order_no) ==
    table[CHOOSE i \in 1..Len(table) : table[i].order_no = order_no]

KeySet(table) == {table[i].order_no : i \in 1..Len(table)}

\* sorted(S) for a set of strings
RECURSIVE Sorted(_)
Sorted(S) ==
    IF S = {} THEN <<>>
    ELSE LET m == CHOOSE x \in S : \A y \in S \ {x} : StrLess(x, y)
         IN  <<m>> \o Sorted(S \ {m})

\* x or y for two strings
StrOr(x, y) == IF x # <<>> THEN x ELSE y

\* A slip: the zero fallback of sales_amount left out.
MatchedSalesNoFallback(o, s) == o.sales_amount

\* line 134
MatchedSales(o, s) == IF o.sales_amount # 0 THEN o.sales_amount ELSE s.sales_amount

\* line 135
MatchedCost(o, s) == IF s.cost_amount # 0 THEN s.cost_amount ELSE o.cost_amount

\* lines 136-147, sales and cost being those of lines 134-135
MatchedRowOf(o, s, order_no, sales, cost) ==
    [order_no       |-> order_no,
     product_name   |-> StrOr(s.product_name, o.product_name),
     sales_amount   |-> Round2(sales),
     cost_amount    |-> Round2(cost),
     profit         |-> Round2(sales - cost),
     status         |-> StrOr(o.status, s.status),
     compare_result |-> "MATCHED"]

MatchedRow(o, s, order_no) ==
    MatchedRowOf(o, s, order_no, MatchedSales(o, s), MatchedCost(o, s))

\* a row of official_missing (label "MISSING") or of service_extra ("ABNORMAL")
SingleSourceRow(r, order_no, label) ==
    [order_no       |-> order_no,
     product_name   |-> r.product_name,
     sales_amount   |-> Round2(r.sales_amount),
     cost_amount    |-> Round2(r.cost_amount),
     profit         |-> Round2(r.sales_amount - r.cost_amount),
     status         |-> r.status,
     compare_result |-> label]

\* compare_order, line 184
CompareRank(label) ==
    CASE label = "MATCHED"  -> 0
      [] label = "MISSING"  -> 1
      [] label = "ABNORMAL" -> 2

\* A slip: the rows ordered by order number alone.
RowBeforeNoRank(a, b) == StrLess(a.order_no, b.order_no)

\* the order of sort_values(by=["_rank", order_no])
RowBefore(a, b) ==
    \/ CompareRank(a.compare_result) < CompareRank(b.compare_result)
    \/ /\ CompareRank(a.compare_result) = CompareRank(b.compare_result)
       /\ StrLess(a.order_no, b.order_no)

\* insertion of row r into the sorted sequence s, after its equals (stable)
RECURSIVE InsertRow(_, _)
InsertRow(s, r) ==
    IF s = <<>> THEN <<r>>
    ELSE IF RowBefore(r, Head(s)) THEN <<r>> \o s
    ELSE <<Head(s)>> \o InsertRow(Tail(s), r)

RECURSIVE SortValues(_)
SortValues(rows) ==
    IF rows = <<>> THEN <<>>
    ELSE InsertRow(SortValues(SubSeq(rows, 1, Len(rows) - 1)), rows[Len(rows)])

\* result.insert(0, seq_no, range(1, len(result) + 1))
InsertSeqNo(rows) ==
    [i \in 1..Len(rows) |->
        [seq_no         |-> i,
         order_no       |-> rows[i].order_no,
         product_name   |-> rows[i].product_name,
         sales_amount   |-> rows[i].sales_amount,
         cost_amount    |-> rows[i].cost_amount,
         profit         |-> rows[i].profit,
         status         |-> rows[i].status,
         compare_result |-> rows[i].compare_result]]

\* A slip: & written for -.
ServiceExtraIntersect(official_set, service_set) == service_set \cap official_set

\* line 127, before sorting
ServiceExtra(official_set, service_set) == service_set \ official_set

\* lines 180-188
FinishCompare(rows) ==
    IF rows = <<>> THEN <<>> ELSE InsertSeqNo(SortValues(rows))

\* lines 129-178
CompareRows(official_df, service_df, matched_ids, official_missing, service_extra) ==
    [i \in 1..Len(matched_ids) |->
        MatchedRow(Loc(official_df, matched_ids[i]),
                   Loc(service_df, matched_ids[i]), matched_ids[i])]
    \o [i \in 1..Len(official_missing) |->
        SingleSourceRow(Loc(official_df, official_missing[i]),
                        official_missing[i], "MISSING")]
    \o [i \in 1..Len(service_extra) |->
        SingleSourceRow(Loc(service_df, service_extra[i]),
                        service_extra[i], "ABNORMAL")]

\* lines 125-127
CompareSets(official_df, service_df, official_set, service_set) ==
    FinishCompare(CompareRows(official_df, service_df,
                              Sorted(official_set \cap service_set),
                              Sorted(official_set \ service_set),
                              Sorted(ServiceExtra(official_set, service_set))))

compare_orders(official_df, service_df) ==
    CompareSets(official_df, service_df, KeySet(official_df), KeySet(service_df))

-----------------------------------------------------------------------------
(* build_summary *)

RECURSIVE SumOf(_, _)
SumOf(rows, field) ==
    IF rows = <<>> THEN 0 ELSE rows[1][field] + SumOf(Tail(rows), field)

\* A slip: ALLOWED_STATUS used where summary_status is meant.
SummaryStatusAllowed == ALLOWED_STATUS

\* summary_status, line 192
SummaryStatus == {<<"TRADE_SUCCESS">>, <<"RECEIVED">>}

\* A slip: every row taken for a matched one.
MatchedRowsAll(df) == df

\* result_df[result_df[compare_result] == MATCHED], line 193
MatchedRows(df) == SelectSeq(df, LAMBDA r : r.compare_result = "MATCHED")

\* lines 200-222
SummaryOf(df, matched_df, matched_summary_df, official_stats, service_stats) ==
    [total_sales    |-> Round2(SumOf(matched_summary_df, "sales_amount")),
     total_cost     |-> Round2(SumOf(matched_summary_df, "cost_amount")),
     total_profit   |-> Round2(SumOf(matched_summary_df, "profit")),
     order_count    |-> Len(df),
     matched_count  |-> Len(matched_df),
     summary_count  |-> Len(matched_summary_df),
     missing_count  |-> Len(SelectSeq(df, LAMBDA r : r.compare_result = "MISSING")),
     abnormal_count |-> Len(SelectSeq(df, LAMBDA r : r.compare_result = "ABNORMAL")),
     loss_count     |-> Len(SelectSeq(matched_summary_df, LAMBDA r : r.profit < 0)),
     official_stats |-> official_stats,
     service_stats  |-> service_stats]

\* lines 194-198
SummaryOfMatched(df, matched_df, official_stats, service_stats) ==
    SummaryOf(df, matched_df,
              SelectSeq(matched_df, LAMBDA r : r.status \in SummaryStatus),
              official_stats, service_stats)

build_summary(df, official_stats, service_stats) ==
    SummaryOfMatched(df, MatchedRows(df), official_stats, service_stats)

-----------------------------------------------------------------------------
(* Raw tables of the model.  The cell texts of row i come from catalogues    *)
(* indexed by the row position, so that every row of a table is told apart   *)
(* by its product name and the same order number appears in several raw      *)
(* spellings.                                                                *)

Columns == {"no", "name", "amt", "cost", "st"}

K10 == <<"1", "0">>
K2 == <<"2">>
K1 == <<"1">>
K21 == <<"2", "1">>

\* raw spellings of an order number: plain, prefixed, or spaced out
OrderCell(i, digits) ==
    IF digits = <<>>
    THEN (IF i % 2 = 1 THEN <<" ">> ELSE <<"A", "-">>)
    ELSE IF i % 3 = 0 THEN digits
    ELSE IF i % 3 = 1 THEN <<"A", " ">> \o digits
    ELSE <<Head(digits), " ">> \o Tail(digits) \o <<"-", "\t">>

AcceptedCells == <<<<"TRADE_SUCCESS">>, <<" ", "SHIPPED">>, <<"RECEIVED", "\t">>>>
RejectedCells == <<<<"CLOSED">>, <<>>>>

StatusCell(i, accepted) ==
    IF accepted THEN AcceptedCells[(i % 3) + 1] ELSE RejectedCells[(i % 2) + 1]

ProductCell(i) == <<"p", DigitSeq[(i % 10) + 1], " ">>

SalesCells == << <<"yen", "1", ".", "0", "0", "4">>,
                 <<"a", "b", "c">>,
                 <<" ", "-", "0", ".", "3">>,
                 <<>>,
                 <<"1", ",", "2", "0", "0">> >>

CostCells == << <<"0", ".", "9", "9", "6">>,
                <<>>,
                <<"x">>,
                <<"yen", " ", "3", "0">> >>

RawRow(i, digits, accepted) ==
    [c \in Columns |->
        CASE c = "no"   -> OrderCell(i, digits)
          [] c = "name" -> ProductCell(i)
          [] c = "amt"  -> SalesCells[(i % Len(SalesCells)) + 1]
          [] c = "cost" -> CostCells[(i % Len(CostCells)) + 1]
          [] c = "st"   -> StatusCell(i, accepted)]

RowChoices == [digits : {<<>>, K10, K2}, accepted : BOOLEAN]

RawTable(choices) ==
    [columns |-> Columns,
     rows    |-> [i \in 1..Len(choices) |->
                    RawRow(i, choices[i].digits, choices[i].accepted)]]

RawTables(n) ==
    UNION {{RawTable(ch) : ch \in [1..k -> RowChoices]} : k \in 1..n}

FullMapping ==
    [k \in MapKeys |->
        CASE k = "order_no"     -> "no"
          [] k = "status"       -> "st"
          [] k = "product_name" -> "name"
          [] k = "sales_amount" -> "amt"
          [] k = "cost_amount"  -> "cost"]

\* the calls of standardize made in the model: (mapping, default_cost, filter_status)
StdCalls ==
    { [mapping |-> FullMapping, default_cost |-> 0, filter_status |-> TRUE],
      [mapping |-> FullMapping, default_cost |-> 500, filter_status |-> FALSE],
      [mapping |-> [FullMapping EXCEPT !["status"] = ""],
       default_cost |-> 500, filter_status |-> TRUE],
      [mapping |-> [FullMapping EXCEPT !["cost_amount"] = ""],
       default_cost |-> 500, filter_status |-> TRUE],
      [mapping |-> [FullMapping EXCEPT !["order_no"] = ""],
       default_cost |-> 0, filter_status |-> TRUE],
      [mapping |-> [FullMapping EXCEPT !["status"] = "ghost"],
       default_cost |-> 0, filter_status |-> FALSE] }

-----------------------------------------------------------------------------
(* Specification of a call of standardize *)

WebIdle ==
    /\ REPORT_CACHE = <<>>
    /\ clock = 0
    /\ threads = <<>>
    /\ response = None

CmpIdle ==
    /\ official = <<>>
    /\ service = <<>>
    /\ result_df = <<>>
    /\ summary = None
    /\ pc = "idle"

StdIdle ==
    /\ std_call = None
    /\ std_ret = None

InitStandardize ==
    /\ \E df \in RawTables(MaxRows), c \in StdCalls :
          std_call = [df            |-> df,
                      mapping       |-> c.mapping,
                      source_name   |-> "official",
                      default_cost  |-> c.default_cost,
                      filter_status |-> c.filter_status]
    /\ std_ret = None
    /\ WebIdle
    /\ CmpIdle

Standardize ==
    /\ std_ret = None
    /\ std_ret' = standardize(std_call.df, std_call.mapping, std_call.source_name,
                              std_call.default_cost, std_call.filter_status)
    /\ UNCHANGED <<std_call, web_vars, cmp_vars>>

NextStandardize == Standardize

SpecStandardize == InitStandardize /\ [][NextStandardize]_vars

-----------------------------------------------------------------------------
(* The Flask handlers.  A worker thread handles one request at a time; a     *)
(* handler is cut where it reads or writes REPORT_CACHE, so that requests    *)
(* interleave around every access to the cache.                              *)

Threads == 1..MaxThreads

\* uuid.uuid4().hex values
ReportIds == 1..(MaxReports + 1)

Idle == [pc |-> "idle"]

NoFile == [nofile |-> TRUE]

\* an upload: extension of the file name, kind of content (no bytes, bytes
\* that are no workbook, a workbook) and the table pd.read_excel makes of the
\* workbook, column names stripped and blank cells ""
Upload(ext, raw, table) == [ext |-> ext, raw |-> raw, table |-> table]

read_uploaded_excel(file) ==
    IF file.ext = "et" THEN [raised |-> TRUE, error |-> "et_not_supported"]
    ELSE IF file.raw = "no_bytes" THEN [raised |-> TRUE, error |-> "upload_empty"]
    ELSE IF file.raw = "not_a_workbook" THEN [raised |-> TRUE, error |-> "read_failed"]
    ELSE IF file.table.rows = <<>> THEN [raised |-> TRUE, error |-> "no_data"]
    ELSE [raised |-> FALSE, df |-> file.table]

BadRequest(op, message) == [op |-> op, code |-> 400, message |-> message]

NotFound(op) == [op |-> op, code |-> 404, message |-> "report_not_found"]

\* compare_api, lines 348-349, for the result table df
CompareReport(df, official_stats, service_stats) ==
    [op        |-> "compare",
     code      |-> 200,
     result_df |-> df,
     summary   |-> build_summary(df, official_stats, service_stats)]

\* compare_api after the two standardize calls returned o and s
CompareStandardized(o, s) ==
    IF o.raised THEN BadRequest("compare", o.error)
    ELSE IF s.raised THEN BadRequest("compare", s.error)
    ELSE CompareReport(compare_orders(o.work, s.work), o.stats, s.stats)

\* compare_api after the two read_uploaded_excel calls returned fo and fs.
\* (When the first standardize raises the second is not run; it changes nothing.)
CompareUploads(fo, fs, official_mapping, service_mapping, default_cost) ==
    IF fo.raised THEN BadRequest("compare", fo.error)
    ELSE IF fs.raised THEN BadRequest("compare", fs.error)
    ELSE CompareStandardized(
             standardize(fo.df, official_mapping, "official", default_cost, TRUE),
             standardize(fs.df, service_mapping, "service", default_cost, FALSE))

\* compare_api up to line 349: a 400 response, or the report to be stored
ComparePipeline(official_file, service_file, official_mapping, service_mapping, default_cost_text) ==
    IF official_file = NoFile \/ service_file = NoFile
    THEN BadRequest("compare", "need_both_files")
    ELSE IF official_mapping["status"] = ""
    THEN BadRequest("compare", "official_status_unmapped")
    ELSE CompareUploads(read_uploaded_excel(official_file),
                        read_uploaded_excel(service_file),
                        official_mapping, service_mapping,
                        to_number(default_cost_text, 0))

\* ids a thread has drawn from uuid4 and not yet stored
PendingIds == {threads[t].report_id : t \in {u \in Threads : threads[u].pc = "compare_store"}}

\* compare_api once the pipeline gave out: the 400 response is sent, or the
\* thread draws a report id (line 351); uuid4 never repeats an id
CompareOutcome(t, out) ==
    IF out.code # 200
    THEN /\ response' = out
         /\ UNCHANGED threads
    ELSE /\ \E id \in ReportIds \ (DOMAIN REPORT_CACHE \cup PendingIds) :
               threads' = [threads EXCEPT ![t] =
                             [pc        |-> "compare_store",
                              report_id |-> id,
                              result_df |-> out.result_df,
                              summary   |-> out.summary]]
         /\ UNCHANGED response

\* compare_api, lines 312-351
CompareRequest(t, official_file, service_file, official_mapping, service_mapping, default_cost_text) ==
    /\ threads[t] = Idle
    /\ Cardinality(DOMAIN REPORT_CACHE) + Cardinality(PendingIds) < MaxReports
    /\ CompareOutcome(t, ComparePipeline(official_file, service_file, official_mapping,
                                         service_mapping, default_cost_text))
    /\ UNCHANGED <<REPORT_CACHE, clock, std_vars, cmp_vars>>

\* REPORT_CACHE[report_id] = entry
CachePut(cache, report_id, entry) ==
    [id \in DOMAIN cache \cup {report_id} |->
        IF id = report_id THEN entry ELSE cache[id]]

\* compare_api, lines 352-363
CompareStore(t) ==
    /\ threads[t].pc = "compare_store"
    /\ REPORT_CACHE' = CachePut(REPORT_CACHE, threads[t].report_id,
                                [result_df  |-> threads[t].result_df,
                                 summary    |-> threads[t].summary,
                                 created_at |-> clock])
    /\ clock' = clock + 1
    /\ response' = [op         |-> "compare",
                    code       |-> 200,
                    report_id  |-> threads[t].report_id,
                    summary    |-> threads[t].summary,
                    total_rows |-> Len(threads[t].result_df)]
    /\ threads' = [threads EXCEPT ![t] = Idle]
    /\ UNCHANGED <<std_vars, cmp_vars>>

Max(a, b) == IF a >= b THEN a ELSE b
Min(a, b) == IF a <= b THEN a ELSE b

MinPageSize == 10
MaxPageSize == 500

\* A slip: the slice starts one row late.
PageStartOffByOne(page, page_size) == (page - 1) * page_size + 1

\* line 386
PageStart(page, page_size) == (page - 1) * page_size

\* report_page, lines 376-399, for the cache entry data
report_page(data, page_arg, page_size_arg) ==
    LET page0       == Max(page_arg, 1)
        page_size   == Min(Max(page_size_arg, MinPageSize), MaxPageSize)
        total_rows  == Len(data.result_df)
        total_pages == Max((total_rows + page_size - 1) \div page_size, 1)
        page        == IF page0 > total_pages THEN total_pages ELSE page0
        start       == PageStart(page, page_size)
        end         == start + page_size
        \* result_df.iloc[start:end]
        records     == IF total_rows # 0
                       THEN SubSeq(data.result_df, start + 1, Min(end, total_rows))
                       ELSE <<>>
    IN  [op          |-> "report_page",
         code        |-> 200,
         records     |-> records,
         page        |-> page,
         page_size   |-> page_size,
         total_rows  |-> total_rows,
         total_pages |-> total_pages,
         summary     |-> data.summary]

\* report_page, lines 372-374
ReportPageRequest(t, report_id, page_arg, page_size_arg) ==
    /\ threads[t] = Idle
    /\ IF report_id \notin DOMAIN REPORT_CACHE
       THEN /\ response' = NotFound("report_page")
            /\ UNCHANGED threads
       ELSE /\ threads' = [threads EXCEPT ![t] =
                             [pc            |-> "page_found",
                              report_id     |-> report_id,
                              data          |-> REPORT_CACHE[report_id],
                              page_arg      |-> page_arg,
                              page_size_arg |-> page_size_arg]]
            /\ UNCHANGED response
    /\ UNCHANGED <<REPORT_CACHE, clock, std_vars, cmp_vars>>

\* report_page, lines 376-399
ReportPageRespond(t) ==
    /\ threads[t].pc = "page_found"
    /\ response' = report_page(threads[t].data, threads[t].page_arg,
                               threads[t].page_size_arg)
    /\ threads' = [threads EXCEPT ![t] = Idle]
    /\ UNCHANGED <<REPORT_CACHE, clock, std_vars, cmp_vars>>

\* export_excel_bytes: the sheet's data rows and the summary block under them
export_excel_bytes(df, sm) ==
    [rows          |-> df,
     summary_block |-> << <<"total_sales", sm.total_sales>>,
                          <<"total_cost", sm.total_cost>>,
                          <<"total_profit", sm.total_profit>>,
                          <<"order_count", sm.order_count>>,
                          <<"missing_count", sm.missing_count>>,
                          <<"abnormal_count", sm.abnormal_count>>,
                          <<"loss_count", sm.loss_count>> >>]

\* export_report, lines 404-406
ExportRequest(t, report_id) ==
    /\ threads[t] = Idle
    /\ IF report_id \notin DOMAIN REPORT_CACHE
       THEN /\ response' = NotFound("export")
            /\ UNCHANGED threads
       ELSE /\ threads' = [threads EXCEPT ![t] =
                             [pc        |-> "export_found",
                              report_id |-> report_id,
                              data      |-> REPORT_CACHE[report_id]]]
            /\ UNCHANGED response
    /\ UNCHANGED <<REPORT_CACHE, clock, std_vars, cmp_vars>>

\* export_report, lines 408-415
ExportRespond(t) ==
    /\ threads[t].pc = "export_found"
    /\ response' = [op   |-> "export",
                    code |-> 200,
                    file |-> export_excel_bytes(threads[t].data.result_df,
                                                threads[t].data.summary)]
    /\ threads' = [threads EXCEPT ![t] = Idle]
    /\ UNCHANGED <<REPORT_CACHE, clock, std_vars, cmp_vars>>

\* A slip: the failed export drops the report from the cache.
ExportFaultEvicts(t) ==
    /\ threads[t].pc = "export_found"
    /\ response' = [op |-> "export", code |-> 500, message |-> "internal_error"]
    /\ threads' = [threads EXCEPT ![t] = Idle]
    /\ REPORT_CACHE' = [id \in DOMAIN REPORT_CACHE \ {threads[t].report_id} |->
                           REPORT_CACHE[id]]
    /\ UNCHANGED <<clock, std_vars, cmp_vars>>

\* export_report, line 408, when export_excel_bytes raises: nothing catches
\* the exception and the request ends with a 500
ExportFault(t) ==
    /\ threads[t].pc = "export_found"
    /\ response' = [op |-> "export", code |-> 500, message |-> "internal_error"]
    /\ threads' = [threads EXCEPT ![t] = Idle]
    /\ UNCHANGED <<REPORT_CACHE, clock, std_vars, cmp_vars>>

-----------------------------------------------------------------------------
(* Requests of the model *)

OfficialTable == RawTable(<<[digits |-> K10, accepted |-> TRUE],
                            [digits |-> K2, accepted |-> TRUE],
                            [digits |-> K2, accepted |-> FALSE]>>)

ServiceTable == RawTable(<<[digits |-> K2, accepted |-> FALSE],
                           [digits |-> K21, accepted |-> FALSE]>>)

NoRows == [columns |-> Columns, rows |-> <<>>]

OfficialWorkbook == Upload("xlsx", "workbook", OfficialTable)

ServiceWorkbook == Upload("xlsx", "workbook", ServiceTable)

\* a compare request that succeeds
GoodCompare ==
    [official_file     |-> OfficialWorkbook,
     service_file      |-> ServiceWorkbook,
     official_mapping  |-> FullMapping,
     service_mapping   |-> FullMapping,
     default_cost_text |-> <<"0", ".", "5">>]

\* the compare requests of the model: two that succeed and one for each way
\* compare_api answers 400
CompareRequests ==
    { GoodCompare,
      [GoodCompare EXCEPT !.service_mapping = [FullMapping EXCEPT !["cost_amount"] = ""]],
      [GoodCompare EXCEPT !.official_file = NoFile],
      [GoodCompare EXCEPT !.service_file = NoFile],
      [GoodCompare EXCEPT !.official_file = Upload("et", "workbook", OfficialTable)],
      [GoodCompare EXCEPT !.service_file = Upload("xlsx", "no_bytes", NoRows)],
      [GoodCompare EXCEPT !.service_file = Upload("xlsx", "not_a_workbook", NoRows)],
      [GoodCompare EXCEPT !.service_file = Upload("xlsx", "workbook", NoRows)],
      [GoodCompare EXCEPT !.official_mapping = [FullMapping EXCEPT !["status"] = ""]],
      [GoodCompare EXCEPT !.official_mapping = [FullMapping EXCEPT !["order_no"] = ""]],
      [GoodCompare EXCEPT !.service_mapping = [FullMapping EXCEPT !["status"] = "ghost"]] }

PageArgs == {-1, 0, 1, 2, 3, 4}

PageSizeArgs == {-5, 9, 10, 11, 500, 501}

-----------------------------------------------------------------------------
(* Specification of the service: requests in any interleaving *)

Init ==
    /\ REPORT_CACHE = <<>>
    /\ clock = 0
    /\ threads = [t \in Threads |-> Idle]
    /\ response = None
    /\ StdIdle
    /\ CmpIdle

Next ==
    \E t \in Threads :
        \/ \E r \in CompareRequests :
                CompareRequest(t, r.official_file, r.service_file, r.official_mapping,
                               r.service_mapping, r.default_cost_text)
        \/ CompareStore(t)
        \/ \E id \in ReportIds, pg \in {1, 2}, sz \in {10} :
                ReportPageRequest(t, id, pg, sz)
        \/ ReportPageRespond(t)
        \/ \E id \in ReportIds : ExportRequest(t, id)
        \/ ExportRespond(t)
        \/ ExportFault(t)

Spec == Init /\ [][Next]_vars

-----------------------------------------------------------------------------
(* Specification of report_page on one cached report of n rows: the report  *)
(* of n official orders none of which the service table holds               *)

\* order number of the i-th row: i in four digits, so that the rows are in
\* ascending string order
FourDigits(i) ==
    <<DigitSeq[((i \div 1000) % 10) + 1], DigitSeq[((i \div 100) % 10) + 1],
      DigitSeq[((i \div 10) % 10) + 1], DigitSeq[(i % 10) + 1]>>

SyntheticRows(n) ==
    [i \in 1..n |->
        [seq_no         |-> i,
         order_no       |-> FourDigits(i),
         product_name   |-> <<"p">>,
         sales_amount   |-> 20 * Unit,
         cost_amount    |-> 5 * Unit,
         profit         |-> 15 * Unit,
         status         |-> <<"TRADE_SUCCESS">>,
         compare_result |-> "MISSING"]]

\* stats of a table of which standardize kept `kept` rows and dropped one row
\* for its empty order number
StatsKept(source_name, kept) ==
    [source               |-> source_name,
     total_rows           |-> kept + 1,
     empty_order_removed  |-> 1,
     duplicate_rows       |-> 0,
     status_filtered_rows |-> 0,
     kept_rows            |-> kept]

SyntheticReport(n) ==
    [result_df  |-> SyntheticRows(n),
     summary    |-> build_summary(SyntheticRows(n), StatsKept("official", n),
                                  StatsKept("service", 0)),
     created_at |-> 0]

InitPage ==
    /\ \E n \in (0..MaxTotalRows) \cup {BigTotalRows} :
          REPORT_CACHE = CachePut(<<>>, 1, SyntheticReport(n))
    /\ clock = 1
    /\ threads = [t \in Threads |-> Idle]
    /\ response = None
    /\ StdIdle
    /\ CmpIdle

NextPage ==
    \/ \E id \in ReportIds, pg \in PageArgs, sz \in PageSizeArgs :
            ReportPageRequest(1, id, pg, sz)
    \/ ReportPageRespond(1)

SpecPage == InitPage /\ [][NextPage]_vars

-----------------------------------------------------------------------------
(* Claims about standardize, stated on the raw table of the call *)

StdReturned == std_ret # None /\ ~std_ret.raised

\* normalized order number of raw row i of the call
StdKey(i) == normalize_order_no(std_call.df.rows[i][std_call.mapping["order_no"]])

StdNonEmptyRows == {i \in 1..Len(std_call.df.rows) : StdKey(i) # <<>>}

\* order numbers carried by more than one non-empty-key row
StdDuplicatedKeys ==
    {k \in {StdKey(i) : i \in StdNonEmptyRows} :
        Cardinality({i \in StdNonEmptyRows : StdKey(i) = k}) > 1}

\* first raw row carrying order number k
StdFirstRow(k) ==
    CHOOSE i \in StdNonEmptyRows :
        StdKey(i) = k /\ \A j \in StdNonEmptyRows : StdKey(j) = k => i <= j

StdFiltering == std_call.filter_status /\ std_call.mapping["status"] # ""

StdRawStatus(i) == Strip(std_call.df.rows[i][std_call.mapping["status"]])

\* C1: the stats of standardize account for every raw row:
\* kept_rows + empty_order_removed + (duplicate_rows - number of duplicated
\* order numbers) + status_filtered_rows = total_rows, where duplicate_rows
\* counts every non-empty-key row sharing its order number with another one
\* and kept_rows is the size of the returned record set.
C1_StatsAccounting ==
    StdReturned =>
        LET st == std_ret.stats
        IN  /\ st.total_rows = Len(std_call.df.rows)
            /\ st.duplicate_rows =
                 Cardinality({i \in StdNonEmptyRows : StdKey(i) \in StdDuplicatedKeys})
            /\ st.kept_rows = Len(std_ret.work)
            /\ st.kept_rows + st.empty_order_removed
                 + (st.duplicate_rows - Cardinality(StdDuplicatedKeys))
                 + st.status_filtered_rows = st.total_rows

C1_Witness ==
    /\ StdReturned
    /\ std_ret.stats.empty_order_removed > 0
    /\ std_ret.stats.duplicate_rows > 0
    /\ std_ret.stats.status_filtered_rows > 0
    /\ std_ret.stats.kept_rows > 0

\* C5: the record set returned by standardize has unique non-empty order
\* numbers; each survivor is the first raw row with its order number; with
\* status filtering an order number is kept exactly when that first row has an
\* allowed status, whatever the status of its later duplicates.
C5_FirstOccurrenceSurvives ==
    StdReturned =>
        LET work == std_ret.work
            kept == {k \in {StdKey(i) : i \in StdNonEmptyRows} :
                        StdFiltering => StdRawStatus(StdFirstRow(k)) \in ALLOWED_STATUS}
        IN  /\ \A a, b \in 1..Len(work) : work[a].order_no = work[b].order_no => a = b
            /\ \A a \in 1..Len(work) : work[a].order_no # <<>>
            /\ {work[a].order_no : a \in 1..Len(work)} = kept
            /\ \A a \in 1..Len(work) :
                  work[a].product_name =
                      Strip(std_call.df.rows[StdFirstRow(work[a].order_no)]
                                [std_call.mapping["product_name"]])

\* a duplicated order number whose first row is filtered out by status while a
\* later duplicate has an allowed status
C5_Witness ==
    /\ StdReturned
    /\ StdFiltering
    /\ \E i, j \in StdNonEmptyRows :
          /\ i < j
          /\ StdKey(i) = StdKey(j)
          /\ i = StdFirstRow(StdKey(i))
          /\ StdRawStatus(i) \notin ALLOWED_STATUS
          /\ StdRawStatus(j) \in ALLOWED_STATUS
          /\ \A a \in 1..Len(std_ret.work) : std_ret.work[a].order_no # StdKey(i)
    /\ Len(std_ret.work) > 0

-----------------------------------------------------------------------------
(* Specifications of compare_orders followed by build_summary on record sets *)
(* as standardize returns them: unique, non-empty order numbers.             *)

Absent == [absent |-> TRUE]

\* "1" < "10" < "2" < "21" as strings, 1 < 2 < 10 < 21 as numbers
KeyOrder == <<K21, K1, K2, K10>>

\* the table holding pick[k] for every key k that is not Absent, in KeyOrder
TableOf(pick) ==
    LET present == {i \in 1..Len(KeyOrder) :
                      KeyOrder[i] \in DOMAIN pick /\ pick[KeyOrder[i]] # Absent}
        chosen  == PickIdx(KeyOrder, present, 1)
    IN  [i \in 1..Len(chosen) |->
            [order_no     |-> chosen[i],
             product_name |-> pick[chosen[i]].product_name,
             sales_amount |-> pick[chosen[i]].sales_amount,
             cost_amount  |-> pick[chosen[i]].cost_amount,
             status       |-> pick[chosen[i]].status]]

\* stats of a table standardize returned without dropping a row
StatsOf(source_name, table) ==
    [source               |-> source_name,
     total_rows           |-> Len(table),
     empty_order_removed  |-> 0,
     duplicate_rows       |-> 0,
     status_filtered_rows |-> 0,
     kept_rows            |-> Len(table)]

\* many keys, few field values
WideKeys == {K1, K10, K2, K21}

WideOfficial ==
    [product_name : {<<"o">>}, sales_amount : {20 * Unit}, cost_amount : {0},
     status : {<<"TRADE_SUCCESS">>, <<"SHIPPED">>}] \cup {Absent}

WideService ==
    [product_name : {<<"s">>}, sales_amount : {0}, cost_amount : {30 * Unit},
     status : {<<>>}] \cup {Absent}

\* few keys, many field values; no difference of two amounts is half a cent
DeepKeys == {K10, K2}

DeepOfficial ==
    [product_name : {<<>>, <<"o">>}, sales_amount : {0, 1004}, cost_amount : {0, 500},
     status : {<<"TRADE_SUCCESS">>, <<"SHIPPED">>, <<>>}] \cup {Absent}

DeepService ==
    [product_name : {<<>>, <<"s">>}, sales_amount : {0, 300}, cost_amount : {0, 996},
     status : {<<>>, <<"RECEIVED">>}] \cup {Absent}

InitCompare(keys, officials, services) ==
    /\ \E po \in [keys -> officials], ps \in [keys -> services] :
          /\ official = TableOf(po)
          /\ service = TableOf(ps)
    /\ result_df = <<>>
    /\ summary = None
    /\ pc = "ready"
    /\ WebIdle
    /\ StdIdle

CompareOrders ==
    /\ pc = "ready"
    /\ result_df' = compare_orders(official, service)
    /\ pc' = "compared"
    /\ UNCHANGED <<official, service, summary, web_vars, std_vars>>

BuildSummary ==
    /\ pc = "compared"
    /\ summary' = build_summary(result_df, StatsOf("official", official),
                                StatsOf("service", service))
    /\ pc' = "summarized"
    /\ UNCHANGED <<official, service, result_df, web_vars, std_vars>>

NextCompare == CompareOrders \/ BuildSummary

SpecCompareWide ==
    InitCompare(WideKeys, WideOfficial, WideService) /\ [][NextCompare]_vars

SpecCompareDeep ==
    InitCompare(DeepKeys, DeepOfficial, DeepService) /\ [][NextCompare]_vars

-----------------------------------------------------------------------------
(* Claims about compare_orders and build_summary, stated on the two record   *)
(* sets given to compare_orders                                              *)

Compared == pc \in {"compared", "summarized"}

OfficialKeys == {official[i].order_no : i \in 1..Len(official)}
ServiceKeys == {service[i].order_no : i \in 1..Len(service)}

OfficialRecord(k) == official[CHOOSE i \in 1..Len(official) : official[i].order_no = k]
ServiceRecord(k) == service[CHOOSE i \in 1..Len(service) : service[i].order_no = k]

ResultRowsOf(k) == {i \in 1..Len(result_df) : result_df[i].order_no = k}

\* C2: compare_orders returns exactly one row per order number of the union
\* of the two key sets and no other row; the row is MATCHED iff the key is in
\* both sets, MISSING iff only in official, ABNORMAL iff only in service.
C2_OneRowPerUnionKey ==
    Compared =>
        /\ Len(result_df) = Cardinality(OfficialKeys \cup ServiceKeys)
        /\ \A k \in OfficialKeys \cup ServiceKeys : Cardinality(ResultRowsOf(k)) = 1
        /\ \A i \in 1..Len(result_df) :
              LET k == result_df[i].order_no
                  c == result_df[i].compare_result
              IN  /\ k \in OfficialKeys \cup ServiceKeys
                  /\ c \in {"MATCHED", "MISSING", "ABNORMAL"}
                  /\ c = "MATCHED" <=> (k \in OfficialKeys /\ k \in ServiceKeys)
                  /\ c = "MISSING" <=> (k \in OfficialKeys /\ k \notin ServiceKeys)
                  /\ c = "ABNORMAL" <=> (k \notin OfficialKeys /\ k \in ServiceKeys)

C2_Witness ==
    /\ Compared
    /\ \E i, j, l \in 1..Len(result_df) :
          /\ result_df[i].compare_result = "MATCHED"
          /\ result_df[j].compare_result = "MISSING"
          /\ result_df[l].compare_result = "ABNORMAL"

\* a < b for digit strings, written out: they differ first at a position where
\* a has the smaller digit, or a is a proper prefix of b
LexBefore(a, b) ==
    \/ /\ Len(a) < Len(b)
       /\ \A p \in 1..Len(a) : a[p] = b[p]
    \/ \E p \in 1..Len(a) :
          /\ p <= Len(b)
          /\ \A q \in 1..(p - 1) : a[q] = b[q]
          /\ a[p] # b[p]
          /\ \E m, n \in 1..Len(DigitSeq) : DigitSeq[m] = a[p] /\ DigitSeq[n] = b[p] /\ m < n

RankOf(row) ==
    IF row.compare_result = "MATCHED" THEN 0
    ELSE IF row.compare_result = "MISSING" THEN 1 ELSE 2

\* C3: the rows of compare_orders are ordered by classification rank
\* (MATCHED, MISSING, ABNORMAL) and within a classification by order number
\* ascending as strings; the i-th row has sequence number i.
C3_SortedAndNumbered ==
    Compared =>
        /\ \A i, j \in 1..Len(result_df) :
              i < j =>
                \/ RankOf(result_df[i]) < RankOf(result_df[j])
                \/ /\ RankOf(result_df[i]) = RankOf(result_df[j])
                   /\ LexBefore(result_df[i].order_no, result_df[j].order_no)
        /\ \A i \in 1..Len(result_df) : result_df[i].seq_no = i

\* two matched rows whose string order differs from their numeric order, after
\* them a missing and an abnormal row whose order numbers are smaller
C3_Witness ==
    /\ Compared
    /\ Len(result_df) = 4
    /\ result_df[1].order_no = K10 /\ result_df[1].compare_result = "MATCHED"
    /\ result_df[2].order_no = K2 /\ result_df[2].compare_result = "MATCHED"
    /\ result_df[3].order_no = K21 /\ result_df[3].compare_result = "MISSING"
    /\ result_df[4].order_no = K1 /\ result_df[4].compare_result = "ABNORMAL"

\* C4: a matched row takes sales_amount from official unless that is exactly
\* zero, then from service; cost_amount from service unless exactly zero, then
\* from official; status from official unless empty, then from service;
\* product_name from service unless empty, then from official.  An
\* official-only row takes its fields from the official record, a service-only
\* row from the service record.  (Amounts appear in the row rounded to cents.)
C4_FieldSources ==
    Compared =>
        \A i \in 1..Len(result_df) :
            LET row == result_df[i]
                k   == row.order_no
            IN  IF k \in OfficialKeys /\ k \in ServiceKeys
                THEN LET o == OfficialRecord(k)
                         s == ServiceRecord(k)
                     IN  /\ row.sales_amount =
                              Round2(IF o.sales_amount # 0 THEN o.sales_amount
                                     ELSE s.sales_amount)
                         /\ row.cost_amount =
                              Round2(IF s.cost_amount # 0 THEN s.cost_amount
                                     ELSE o.cost_amount)
                         /\ row.status = (IF o.status # <<>> THEN o.status ELSE s.status)
                         /\ row.product_name =
                              (IF s.product_name # <<>> THEN s.product_name
                               ELSE o.product_name)
                ELSE LET r == IF k \in OfficialKeys THEN OfficialRecord(k)
                              ELSE ServiceRecord(k)
                     IN  /\ row.sales_amount = Round2(r.sales_amount)
                         /\ row.cost_amount = Round2(r.cost_amount)
                         /\ row.status = r.status
                         /\ row.product_name = r.product_name

\* a matched row where all four fallbacks apply, beside an official-only row
C4_Witness ==
    /\ Compared
    /\ \E i, j \in 1..Len(result_df) :
          LET k == result_df[i].order_no
          IN  /\ k \in OfficialKeys /\ k \in ServiceKeys
              /\ OfficialRecord(k).sales_amount = 0
              /\ ServiceRecord(k).sales_amount # 0
              /\ result_df[i].sales_amount = 300
              /\ ServiceRecord(k).cost_amount = 0
              /\ result_df[i].cost_amount = 500
              /\ OfficialRecord(k).status = <<>>
              /\ result_df[i].status = <<"RECEIVED">>
              /\ ServiceRecord(k).product_name = <<>>
              /\ result_df[i].product_name = <<"o">>
              /\ result_df[j].compare_result = "MISSING"

MatchedKeysOfResult ==
    {result_df[i].order_no : i \in {j \in 1..Len(result_df) :
                                       result_df[j].compare_result = "MATCHED"}}

ResultRow(k) == result_df[CHOOSE i \in 1..Len(result_df) : result_df[i].order_no = k]

\* matched order numbers whose row has status TRADE_SUCCESS or RECEIVED
EligibleKeys ==
    {k \in MatchedKeysOfResult :
        ResultRow(k).status = <<"TRADE_SUCCESS">> \/ ResultRow(k).status = <<"RECEIVED">>}

RECURSIVE SumOverKeys(_, _)
SumOverKeys(S, field) ==
    IF S = {} THEN 0
    ELSE LET k == CHOOSE x \in S : TRUE
         IN  ResultRow(k)[field] + SumOverKeys(S \ {k}, field)

\* C6: total_sales, total_cost and total_profit are the sums of the row fields
\* over exactly the MATCHED rows with status TRADE_SUCCESS or RECEIVED (0 when
\* there is none); loss_count counts those of them with profit < 0; a MATCHED
\* row with status SHIPPED counts in matched_count only.
C6_TotalsOverEligibleMatched ==
    pc = "summarized" =>
        /\ summary.total_sales = SumOverKeys(EligibleKeys, "sales_amount")
        /\ summary.total_cost = SumOverKeys(EligibleKeys, "cost_amount")
        /\ summary.total_profit = SumOverKeys(EligibleKeys, "profit")
        /\ summary.summary_count = Cardinality(EligibleKeys)
        /\ summary.loss_count =
             Cardinality({k \in EligibleKeys : ResultRow(k).profit < 0})
        /\ summary.matched_count = Cardinality(MatchedKeysOfResult)

\* a shipped matched row beside an eligible matched row that makes a loss
C6_Witness ==
    /\ pc = "summarized"
    /\ \E k \in MatchedKeysOfResult : ResultRow(k).status = <<"SHIPPED">>
    /\ \E k \in EligibleKeys : ResultRow(k).profit < 0
    /\ summary.matched_count = 2
    /\ summary.summary_count = 1
    /\ summary.loss_count = 1
    /\ summary.total_profit < 0

\* C7: summary_count <= matched_count <= order_count and
\* missing_count + abnormal_count + matched_count = order_count.
C7_CountsAddUp ==
    pc = "summarized" =>
        /\ summary.summary_count <= summary.matched_count
        /\ summary.matched_count <= summary.order_count
        /\ summary.missing_count + summary.abnormal_count + summary.matched_count
             = summary.order_count
        /\ summary.order_count = Cardinality(OfficialKeys \cup ServiceKeys)

C7_Witness ==
    /\ pc = "summarized"
    /\ 0 < summary.summary_count
    /\ summary.summary_count < summary.matched_count
    /\ summary.matched_count < summary.order_count
    /\ summary.missing_count > 0
    /\ summary.abnormal_count > 0

\* C8: in every row of compare_orders the profit field equals the row's own
\* sales_amount field minus the row's own cost_amount field, rounded to cents.
C8_ProfitFromRowFields ==
    Compared =>
        \A i \in 1..Len(result_df) :
            result_df[i].profit =
                Round2(result_df[i].sales_amount - result_df[i].cost_amount)

-----------------------------------------------------------------------------
(* Claims about the handlers *)

\* what report_page must answer for the rows of the cached report and the
\* requested page and page_size
PageResponseOK(rows, page_arg, page_size_arg, r) ==
    LET ps    == IF page_size_arg < 10 THEN 10
                 ELSE IF page_size_arg > 500 THEN 500 ELSE page_size_arg
        total == Len(rows)
        \* max(ceil(total / ps), 1): the least n >= 1 with n * ps >= total
        tp    == CHOOSE n \in 1..(total + 1) :
                    n * ps >= total /\ (n = 1 \/ (n - 1) * ps < total)
        pg    == IF page_arg < 1 THEN 1 ELSE IF page_arg > tp THEN tp ELSE page_arg
        lo    == (pg - 1) * ps
        hi    == IF pg * ps < total THEN pg * ps ELSE total
    IN  /\ r.code = 200
        /\ r.page_size = ps
        /\ r.total_rows = total
        /\ r.total_pages = tp
        /\ r.page = pg
        /\ Len(r.records) = hi - lo
        /\ \A i \in 1..(hi - lo) : r.records[i] = rows[lo + i]
        \* the pages 1..tp hold every position exactly once, in order
        /\ \A pos \in 0..(total - 1) :
              \E p \in 1..tp :
                 /\ (p - 1) * ps <= pos
                 /\ pos < p * ps
                 /\ \A q \in 1..tp : ((q - 1) * ps <= pos /\ pos < q * ps) => q = p

\* C9: report_page uses page_size clamped to [10,500], reports
\* total_pages = max(ceil(total_rows / page_size), 1), clamps page into
\* [1, total_pages] and returns exactly the rows at the 0-based positions
\* [(page-1)*page_size, min(page*page_size, total_rows)); the pages
\* 1..total_pages hold every row once, in order.
C9_PageSlice ==
    [][\A t \in Threads :
          (threads[t].pc = "page_found" /\ threads'[t] = Idle) =>
              PageResponseOK(threads[t].data.result_df, threads[t].page_arg,
                             threads[t].page_size_arg, response')]_vars

\* the last page of three, shorter than the page size
C9_Witness ==
    /\ response # None
    /\ response.op = "report_page"
    /\ response.code = 200
    /\ response.page_size = 10
    /\ response.total_pages = 3
    /\ response.page = 3
    /\ Len(response.records) \in 1..9
    /\ response.records[1].seq_no = 21

\* C10: REPORT_CACHE changes only when a compare request succeeds, and then
\* by exactly one new entry under an id it did not hold; no entry is ever
\* changed or removed; a failed compare, a report_page read, an export (also a
\* failing one) and a lookup of an unknown id leave it as it is.
C10_CacheWrittenOncePerId ==
    [][/\ \A id \in DOMAIN REPORT_CACHE :
             id \in DOMAIN REPORT_CACHE' /\ REPORT_CACHE'[id] = REPORT_CACHE[id]
       /\ REPORT_CACHE' # REPORT_CACHE =>
             /\ response'.op = "compare"
             /\ response'.code = 200
             /\ response'.report_id \notin DOMAIN REPORT_CACHE
             /\ DOMAIN REPORT_CACHE' = DOMAIN REPORT_CACHE \cup {response'.report_id}
             /\ \E t \in Threads :
                   /\ threads[t].pc = "compare_store"
                   /\ threads'[t] = Idle
                   /\ REPORT_CACHE'[response'.report_id].result_df = threads[t].result_df
                   /\ REPORT_CACHE'[response'.report_id].summary = threads[t].summary
       /\ (response' # response /\ (response'.op # "compare" \/ response'.code # 200)) =>
             REPORT_CACHE' = REPORT_CACHE]_vars

\* two reports stored and an export of one of them failed
C10_Witness ==
    /\ Cardinality(DOMAIN REPORT_CACHE) = 2
    /\ response # None
    /\ response.op = "export"
    /\ response.code = 500

====
